---- MODULE Spec2Model ----
(***************************************************************************)
(* UART Command Center: the interrupt-driven line receiver                 *)
(* (src/src/uart_handler.c), the message queue between the receiver and    *)
(* the menu task, the menu loops (src/src/menu/menu_core.c) and the        *)
(* command dispatcher down to the lights driver.                           *)
(*                                                                         *)
(* Bytes are their ASCII codes; a line is the sequence of the bytes of a   *)
(* NUL-terminated C string, without the NUL.                               *)
(***************************************************************************)
EXTENDS Integers, Sequences, FiniteSets, TLC

----------------------------------------------------------------------------
(* Program constants *)

\* '\0', '\n', '\r'
NUL == 0
LF == 10
CR == 13

\* '0' .. '5'
Ch0 == 48
Ch1 == 49
Ch2 == 50
Ch3 == 51
Ch4 == 52
Ch5 == 53

\* uart_handler.c: size of rx_buf and of one queue slot
UART_MSG_SIZE == 64

\* menu_core.c: size of the menu's input buffers
menu_input_max_len == 32

\* errno of "no such device"
ENODEV == 19

\* errno of "invalid argument"
EINVAL == 22

\* errno of "try again": k_msgq_get when its waiting time is over
EAGAIN == 11

\* errno of "no message": k_msgq_get that does not wait
ENOMSG == 35

\* lights_control.c: initial brightness
InitialBrightness == 50

\* uart_handler.c defines a queue of 10 slots; the model keeps the queue
\* short to keep the state space small.
UART_MSGQ_LEN == 2

----------------------------------------------------------------------------
VARIABLES
    rx_buf,        \* uart_handler.c rx_buf[0 .. rx_buf_pos-1], the bytes accumulated
    rx_buf_pos,    \* uart_handler.c rx_buf_pos
    uart_msgq,     \* the lines held by uart_msgq, oldest first
    rx_irq_enabled,\* uart_irq_rx_enable has been called
    pc,            \* where the main thread is: "start", "main_get", "lights_get", "done", "init_failed"
    run,           \* menu_core.c file-level flag run
    input_buffer,  \* the line the active menu loop dequeued last
    overrun,       \* bytes the last k_msgq_get wrote past the end of its destination
    on_state,      \* lights_control.c on_state
    brightness,    \* lights_control.c brightness
    last,          \* the step taken last: "none", "boot", "irq", "main", "lights", "main_failed", "lights_failed", "dispatch", "driver", "write", "query", "put", "get"
    uart_out,      \* messages written to the UART by the step taken last
    log_out,       \* log events emitted by the step taken last
    dispatched,    \* <<category, action_id>> pairs passed to commands_core_execute by the step taken last
    cur_run,       \* history: the bytes received since the last terminator, at most UART_MSG_SIZE-1 of them
    put_log,       \* history: the lines k_msgq_put accepted (recorded under SpecFifo only)
    got_log,       \* history: the lines k_msgq_get handed to the menu (recorded under SpecFifo only)
    returned,      \* the values returned by the call made last by main (of uart_handler_init) or directly: none for a void function
    out_args,      \* the storage the pointer arguments of the call made last name, before and after the call: <<>> for a call without such arguments
    streak         \* history: the driver operation performed last, how many times in a row, the brightness before the first of them and the operation before them (SpecCmd only)

rxvars == <<rx_buf, rx_buf_pos>>
lightvars == <<on_state, brightness>>
menuvars == <<pc, run, input_buffer, overrun>>
histvars == <<cur_run, put_log, got_log>>
callvars == <<returned, out_args, streak>>
vars == <<rx_buf, rx_buf_pos, uart_msgq, rx_irq_enabled, pc, run, input_buffer, overrun,
          on_state, brightness, last, uart_out, log_out, dispatched,
          cur_run, put_log, got_log, returned, out_args, streak>>

----------------------------------------------------------------------------
(* C strings *)

\* The string a reader finds at the start of a byte array: the bytes before
\* the first NUL.
CStr(bytes) ==
    LET nuls == {i \in 1..Len(bytes) : bytes[i] = NUL}
    IN  IF nuls = {} THEN bytes
        ELSE SubSeq(bytes, 1, (CHOOSE i \in nuls : \A j \in nuls : i <= j) - 1)

\* strcmp(a, b) == 0
StrEq(a, b) == CStr(a) = CStr(b)

----------------------------------------------------------------------------
(* uart_handler.c: the receiver *)

\* A queue that makes room for a new line by dropping its oldest one
k_msgq_put_overwrite(q, data) ==
    IF Len(q) < UART_MSGQ_LEN
    THEN [q |-> Append(q, data), ret |-> 0]
    ELSE [q |-> Append(Tail(q), data), ret |-> 0]

\* k_msgq_put(&uart_msgq, data, K_NO_WAIT): the line is copied into a free
\* slot at the tail, or the call fails at once when every slot is in use.
k_msgq_put(q, data) ==
    IF Len(q) < UART_MSGQ_LEN
    THEN [q |-> Append(q, data), ret |-> 0]
    ELSE [q |-> q, ret |-> -1]

\* A receiver that keeps a line the queue refused, to offer it again at the
\* next terminator
RxByte_keep_on_full(r, c) ==
    IF (c = LF \/ c = CR) /\ r.pos > 0 THEN
        LET line == CStr(Append(SubSeq(r.buf, 1, r.pos), NUL))
            res == k_msgq_put(r.q, line)
        IN  IF res.ret < 0
            THEN [r EXCEPT !.log = Append(r.log, <<"WRN", "uart_handler">>)]
            ELSE [buf |-> <<>>, pos |-> 0, q |-> res.q, log |-> r.log,
                  put |-> Append(r.put, line)]
    ELSE IF r.pos < UART_MSG_SIZE - 1 THEN
        [r EXCEPT !.buf = Append(SubSeq(r.buf, 1, r.pos), c), !.pos = r.pos + 1]
    ELSE r

\* A receiver that fills its buffer to the last byte
RxByte_off_by_one(r, c) ==
    IF (c = LF \/ c = CR) /\ r.pos > 0 THEN
        LET line == CStr(Append(SubSeq(r.buf, 1, r.pos), NUL))
            res == k_msgq_put(r.q, line)
        IN  [buf |-> <<>>,
             pos |-> 0,
             q   |-> res.q,
             log |-> IF res.ret < 0
                     THEN Append(r.log, <<"WRN", "uart_handler">>)
                     ELSE r.log,
             put |-> IF res.ret < 0 THEN r.put ELSE Append(r.put, line)]
    ELSE IF r.pos < UART_MSG_SIZE THEN
        [r EXCEPT !.buf = Append(SubSeq(r.buf, 1, r.pos), c), !.pos = r.pos + 1]
    ELSE r

\* One pass of the body of the while loop of uart_irq_handler for the byte c.
\* r = [buf, pos, q, log, put]: rx_buf, rx_buf_pos, the queue, the log events
\* emitted and the lines the queue accepted during this call of the handler.
RxByte(r, c) ==
    IF (c = LF \/ c = CR) /\ r.pos > 0 THEN
        LET line == CStr(Append(SubSeq(r.buf, 1, r.pos), NUL))
            res == k_msgq_put(r.q, line)
        IN  [buf |-> <<>>,
             pos |-> 0,
             q   |-> res.q,
             log |-> IF res.ret < 0
                     THEN Append(r.log, <<"WRN", "uart_handler">>)
                     ELSE r.log,
             put |-> IF res.ret < 0 THEN r.put ELSE Append(r.put, line)]
    ELSE IF r.pos < UART_MSG_SIZE - 1 THEN
        [r EXCEPT !.buf = Append(SubSeq(r.buf, 1, r.pos), c), !.pos = r.pos + 1]
    ELSE r

RECURSIVE RxBytes(_, _)
\* The while loop of uart_irq_handler over the bytes the FIFO yields.
RxBytes(r, bytes) ==
    IF bytes = <<>> THEN r
    ELSE RxBytes(RxByte(r, Head(bytes)), Tail(bytes))

----------------------------------------------------------------------------
(* The task side: output sink, lights driver, dispatcher.                  *)
(* m = [on, br, out, log, disp, ret]: on_state, brightness, the messages   *)
(* written, the log events emitted and the commands dispatched so far in   *)
(* this step, and the value the last call returned.                        *)

\* uart_handler_write_string(str) for a non-null str
uart_handler_write_string(m, str) == [m EXCEPT !.out = Append(@, str), !.ret = 0]

\* A write that takes a null pointer for the empty string
uart_handler_write_string_ptr_unchecked(m, str) ==
    IF str.null THEN [m EXCEPT !.ret = 0]
    ELSE uart_handler_write_string(m, CStr(str.bytes))

\* uart_handler_write_string(str) for a pointer str that may be null:
\* str = [null, bytes], bytes being the array a non-null str points to.
\* uart_dev is a device of the devicetree and is never null.
uart_handler_write_string_ptr(m, str) ==
    IF str.null THEN [m EXCEPT !.ret = -EINVAL]
    ELSE uart_handler_write_string(m, CStr(str.bytes))

\* LOG_INF / LOG_WRN / LOG_ERR of a module
Log(m, level, module) == [m EXCEPT !.log = Append(@, <<level, module>>)]

lights_control_turn_on(m) ==
    [Log([m EXCEPT !.on = TRUE], "INF", "lights_control") EXCEPT !.ret = 0]

\* A driver whose turn-off flips the light
lights_control_turn_off_toggle(m) ==
    [Log([m EXCEPT !.on = ~m.on], "INF", "lights_control") EXCEPT !.ret = 0]

\* A driver whose turn-off also resets the brightness
lights_control_turn_off_reset(m) ==
    [Log([m EXCEPT !.on = FALSE, !.br = 0], "INF", "lights_control") EXCEPT !.ret = 0]

lights_control_turn_off(m) ==
    [Log([m EXCEPT !.on = FALSE], "INF", "lights_control") EXCEPT !.ret = 0]

\* A driver that adds its step without looking at the upper limit
lights_control_increase_brightness_noclamp(m) ==
    [Log([m EXCEPT !.br = m.br + 10], "INF", "lights_control") EXCEPT !.ret = 0]

\* A driver that reports an error when the brightness is at its maximum
lights_control_increase_brightness_limit_error(m) ==
    IF m.br <= 90
    THEN [Log([m EXCEPT !.br = m.br + 10], "INF", "lights_control") EXCEPT !.ret = 0]
    ELSE [Log([m EXCEPT !.br = 100], "INF", "lights_control") EXCEPT !.ret = -1]

lights_control_increase_brightness(m) ==
    [Log(IF m.br <= 90 THEN [m EXCEPT !.br = m.br + 10] ELSE [m EXCEPT !.br = 100],
         "INF", "lights_control") EXCEPT !.ret = 0]

\* A driver that subtracts its step without looking at the lower limit
lights_control_decrease_brightness_noclamp(m) ==
    [Log([m EXCEPT !.br = m.br - 10], "INF", "lights_control") EXCEPT !.ret = 0]

lights_control_decrease_brightness(m) ==
    [Log(IF m.br >= 10 THEN [m EXCEPT !.br = m.br - 10] ELSE [m EXCEPT !.br = 0],
         "INF", "lights_control") EXCEPT !.ret = 0]

\* A query that fills in the storage it was given before it rejects the call
lights_control_get_state_partial(m, state, level) ==
    IF state.null \/ level.null
    THEN [m |-> [Log(m, "ERR", "lights_control") EXCEPT !.ret = -EINVAL],
          state |-> IF state.null THEN state ELSE [state EXCEPT !.val = m.on],
          level |-> IF level.null THEN level ELSE [level EXCEPT !.val = m.br]]
    ELSE [m |-> [Log(m, "INF", "lights_control") EXCEPT !.ret = 0],
          state |-> [state EXCEPT !.val = m.on],
          level |-> [level EXCEPT !.val = m.br]]

\* lights_control_get_state(state, level): state and level are pointers,
\* each NULL or naming storage that holds val.  In the result, state and
\* level are the same storage after the call.
lights_control_get_state(m, state, level) ==
    IF state.null \/ level.null
    THEN [m |-> [Log(m, "ERR", "lights_control") EXCEPT !.ret = -EINVAL],
          state |-> state, level |-> level]
    ELSE [m |-> [Log(m, "INF", "lights_control") EXCEPT !.ret = 0],
          state |-> [state EXCEPT !.val = m.on],
          level |-> [level EXCEPT !.val = m.br]]

\* A report that takes the driver's 0 for a failure
LightsReport_inverted(r, okMsg, failMsg) ==
    IF r.ret # 0
    THEN Log(uart_handler_write_string(r, okMsg), "INF", "command_lights")
    ELSE Log(uart_handler_write_string(r, failMsg), "ERR", "command_lights")

\* One case of command_lights_execute_action: the driver call r, then the
\* confirmation or the failure message.
LightsReport(r, okMsg, failMsg) ==
    IF r.ret = 0
    THEN Log(uart_handler_write_string(r, okMsg), "INF", "command_lights")
    ELSE Log(uart_handler_write_string(r, failMsg), "ERR", "command_lights")

\* A lights command whose last case also takes every larger action_id
command_lights_execute_action_open_range(m, action_id) ==
    CASE action_id = 0 ->
            LightsReport(lights_control_turn_on(m),
                         "Lights turned ON.\r\n", "Failed to turn lights ON.\r\n")
      [] action_id = 1 ->
            LightsReport(lights_control_turn_off(m),
                         "Lights turned OFF.\r\n", "Failed to turn lights OFF.\r\n")
      [] action_id = 2 ->
            LightsReport(lights_control_increase_brightness(m),
                         "Brightness increased.\r\n", "Failed to increase brightness.\r\n")
      [] action_id >= 3 ->
            LightsReport(lights_control_decrease_brightness(m),
                         "Brightness decreased.\r\n", "Failed to decrease brightness.\r\n")
      [] OTHER ->
            Log(uart_handler_write_string(m, "Invalid lights command.\r\n"),
                "WRN", "command_lights")

command_lights_execute_action(m, action_id) ==
    CASE action_id = 0 ->
            LightsReport(lights_control_turn_on(m),
                         "Lights turned ON.\r\n", "Failed to turn lights ON.\r\n")
      [] action_id = 1 ->
            LightsReport(lights_control_turn_off(m),
                         "Lights turned OFF.\r\n", "Failed to turn lights OFF.\r\n")
      [] action_id = 2 ->
            LightsReport(lights_control_increase_brightness(m),
                         "Brightness increased.\r\n", "Failed to increase brightness.\r\n")
      [] action_id = 3 ->
            LightsReport(lights_control_decrease_brightness(m),
                         "Brightness decreased.\r\n", "Failed to decrease brightness.\r\n")
      [] OTHER ->
            Log(uart_handler_write_string(m, "Invalid lights command.\r\n"),
                "WRN", "command_lights")

command_lights_execute(m, action_id) ==
    command_lights_execute_action(Log(m, "INF", "command_lights"), action_id)

commands_core_execute_lights(m, action_id) ==
    command_lights_execute(Log(m, "INF", "commands_core"), action_id)

commands_core_execute_sensors(m, action_id) ==
    Log(uart_handler_write_string(m, "Sensor commands not implemented yet.\r\n"),
        "WRN", "commands_core")

commands_core_execute_system(m, action_id) ==
    Log(uart_handler_write_string(m, "System configuration commands not implemented yet.\r\n"),
        "WRN", "commands_core")

commands_core_execute_diagnostics(m, action_id) ==
    Log(uart_handler_write_string(m, "Diagnostics commands not implemented yet.\r\n"),
        "WRN", "commands_core")

\* A dispatcher that reports an unknown category to the user only
commands_core_execute_silent_default(m, category, action_id) ==
    LET m1 == Log([m EXCEPT !.disp = Append(@, <<category, action_id>>)],
                  "INF", "commands_core")
    IN  CASE category = 1 -> commands_core_execute_lights(m1, action_id)
          [] category = 2 -> commands_core_execute_sensors(m1, action_id)
          [] category = 3 -> commands_core_execute_system(m1, action_id)
          [] category = 4 -> commands_core_execute_diagnostics(m1, action_id)
          [] OTHER -> uart_handler_write_string(m1, "Invalid command category.\r\n")

\* A dispatcher that hands the system configuration commands to the
\* diagnostics handler
commands_core_execute_misrouted(m, category, action_id) ==
    LET m1 == Log([m EXCEPT !.disp = Append(@, <<category, action_id>>)],
                  "INF", "commands_core")
    IN  CASE category = 1 -> commands_core_execute_lights(m1, action_id)
          [] category = 2 -> commands_core_execute_sensors(m1, action_id)
          [] category = 3 -> commands_core_execute_diagnostics(m1, action_id)
          [] category = 4 -> commands_core_execute_diagnostics(m1, action_id)
          [] OTHER -> Log(uart_handler_write_string(m1, "Invalid command category.\r\n"),
                          "WRN", "commands_core")

\* A dispatcher that hands an unknown category to the lights commands
commands_core_execute_default_lights(m, category, action_id) ==
    LET m1 == Log([m EXCEPT !.disp = Append(@, <<category, action_id>>)],
                  "INF", "commands_core")
    IN  CASE category = 2 -> commands_core_execute_sensors(m1, action_id)
          [] category = 3 -> commands_core_execute_system(m1, action_id)
          [] category = 4 -> commands_core_execute_diagnostics(m1, action_id)
          [] OTHER -> commands_core_execute_lights(m1, action_id)

commands_core_execute(m, category, action_id) ==
    LET m1 == Log([m EXCEPT !.disp = Append(@, <<category, action_id>>)],
                  "INF", "commands_core")
    IN  CASE category = 1 -> commands_core_execute_lights(m1, action_id)
          [] category = 2 -> commands_core_execute_sensors(m1, action_id)
          [] category = 3 -> commands_core_execute_system(m1, action_id)
          [] category = 4 -> commands_core_execute_diagnostics(m1, action_id)
          [] OTHER -> Log(uart_handler_write_string(m1, "Invalid command category.\r\n"),
                          "WRN", "commands_core")

menu_actions_execute(m, category, action_id) ==
    commands_core_execute(Log(m, "INF", "menu_actions"), category, action_id)

----------------------------------------------------------------------------
(* menu_display.c *)

menu_display_show_main_menu(m) ==
    LET m1 == uart_handler_write_string(m,
                  "\r\n--------------------------------------\r\n      UART Command Center Menu\r\n--------------------------------------\r\n")
        m2 == uart_handler_write_string(m1, "[1] Control Lights\r\n")
        m3 == uart_handler_write_string(m2, "[2] View Sensor Readings\r\n")
        m4 == uart_handler_write_string(m3, "[3] System Configuration\r\n")
        m5 == uart_handler_write_string(m4, "[4] Diagnostics and Logs\r\n")
        m6 == uart_handler_write_string(m5, "[0] Exit\r\n")
    IN  uart_handler_write_string(m6, "Enter your choice: ")

\* menu_display_message(msg) for a non-null msg
menu_display_message(m, msg) ==
    Log(uart_handler_write_string(uart_handler_write_string(m, msg), "\r\n"),
        "INF", "menu_display")

\* menu_display_error(err_msg) for a non-null err_msg
menu_display_error(m, err_msg) ==
    LET m1 == uart_handler_write_string(m, "Error: ")
        m2 == uart_handler_write_string(m1, err_msg)
    IN  Log(uart_handler_write_string(m2, "\r\n"), "WRN", "menu_display")

----------------------------------------------------------------------------
(* menu_core.c *)

\* The strings the menus compare the input with
Str0 == <<Ch0>>
Str1 == <<Ch1>>
Str2 == <<Ch2>>
Str3 == <<Ch3>>
Str4 == <<Ch4>>

menu_core_display_lights_menu(m) ==
    LET m1 == menu_display_message(m, "Lights Control Menu:")
        m2 == menu_display_message(m1, "[1] Turn ON")
        m3 == menu_display_message(m2, "[2] Turn OFF")
        m4 == menu_display_message(m3, "[3] Increase Brightness")
        m5 == menu_display_message(m4, "[4] Decrease Brightness")
        m6 == menu_display_message(m5, "[0] Return to Main Menu")
    IN  menu_display_message(m6, "Enter your choice:")

menu_core_display_main_menu(m) == menu_display_show_main_menu(m)

\* A lights sub-menu that passes the digit typed as the action_id
menu_core_handle_lights_input_digit(m, input) ==
    IF StrEq(input, Str1) THEN
        [menu_actions_execute(uart_handler_write_string(m, "Turning lights ON...\r\n"), 1, 1)
            EXCEPT !.ret = TRUE]
    ELSE IF StrEq(input, Str2) THEN
        [menu_actions_execute(uart_handler_write_string(m, "Turning lights OFF...\r\n"), 1, 2)
            EXCEPT !.ret = TRUE]
    ELSE IF StrEq(input, Str3) THEN
        [menu_actions_execute(uart_handler_write_string(m, "Increasing brightness...\r\n"), 1, 3)
            EXCEPT !.ret = TRUE]
    ELSE IF StrEq(input, Str4) THEN
        [menu_actions_execute(uart_handler_write_string(m, "Decreasing brightness...\r\n"), 1, 4)
            EXCEPT !.ret = TRUE]
    ELSE IF StrEq(input, Str0) THEN
        [uart_handler_write_string(m, "Returning to main menu...\r\n") EXCEPT !.ret = FALSE]
    ELSE
        [menu_display_error(m, "Invalid choice. Please try again.") EXCEPT !.ret = TRUE]

\* A lights sub-menu that prints the return message on "0" and stays
menu_core_handle_lights_input_stay(m, input) ==
    IF StrEq(input, Str1) THEN
        [menu_actions_execute(uart_handler_write_string(m, "Turning lights ON...\r\n"), 1, 0)
            EXCEPT !.ret = TRUE]
    ELSE IF StrEq(input, Str2) THEN
        [menu_actions_execute(uart_handler_write_string(m, "Turning lights OFF...\r\n"), 1, 1)
            EXCEPT !.ret = TRUE]
    ELSE IF StrEq(input, Str3) THEN
        [menu_actions_execute(uart_handler_write_string(m, "Increasing brightness...\r\n"), 1, 2)
            EXCEPT !.ret = TRUE]
    ELSE IF StrEq(input, Str4) THEN
        [menu_actions_execute(uart_handler_write_string(m, "Decreasing brightness...\r\n"), 1, 3)
            EXCEPT !.ret = TRUE]
    ELSE IF StrEq(input, Str0) THEN
        [uart_handler_write_string(m, "Returning to main menu...\r\n") EXCEPT !.ret = TRUE]
    ELSE
        [menu_display_error(m, "Invalid choice. Please try again.") EXCEPT !.ret = TRUE]

\* A lights sub-menu that looks at the first character of the input only
menu_core_handle_lights_input_first(m, input) ==
    LET c == IF CStr(input) = <<>> THEN <<>> ELSE <<Head(input)>>
    IN  IF c = Str1 THEN
            [menu_actions_execute(uart_handler_write_string(m, "Turning lights ON...\r\n"), 1, 0)
                EXCEPT !.ret = TRUE]
        ELSE IF c = Str2 THEN
            [menu_actions_execute(uart_handler_write_string(m, "Turning lights OFF...\r\n"), 1, 1)
                EXCEPT !.ret = TRUE]
        ELSE IF c = Str3 THEN
            [menu_actions_execute(uart_handler_write_string(m, "Increasing brightness...\r\n"), 1, 2)
                EXCEPT !.ret = TRUE]
        ELSE IF c = Str4 THEN
            [menu_actions_execute(uart_handler_write_string(m, "Decreasing brightness...\r\n"), 1, 3)
                EXCEPT !.ret = TRUE]
        ELSE IF c = Str0 THEN
            [uart_handler_write_string(m, "Returning to main menu...\r\n") EXCEPT !.ret = FALSE]
        ELSE
            [menu_display_error(m, "Invalid choice. Please try again.") EXCEPT !.ret = TRUE]

\* The result has ret = TRUE to continue the lights sub-menu loop, FALSE to
\* go back to the main menu.
menu_core_handle_lights_input(m, input) ==
    IF StrEq(input, Str1) THEN
        [menu_actions_execute(uart_handler_write_string(m, "Turning lights ON...\r\n"), 1, 0)
            EXCEPT !.ret = TRUE]
    ELSE IF StrEq(input, Str2) THEN
        [menu_actions_execute(uart_handler_write_string(m, "Turning lights OFF...\r\n"), 1, 1)
            EXCEPT !.ret = TRUE]
    ELSE IF StrEq(input, Str3) THEN
        [menu_actions_execute(uart_handler_write_string(m, "Increasing brightness...\r\n"), 1, 2)
            EXCEPT !.ret = TRUE]
    ELSE IF StrEq(input, Str4) THEN
        [menu_actions_execute(uart_handler_write_string(m, "Decreasing brightness...\r\n"), 1, 3)
            EXCEPT !.ret = TRUE]
    ELSE IF StrEq(input, Str0) THEN
        [uart_handler_write_string(m, "Returning to main menu...\r\n") EXCEPT !.ret = FALSE]
    ELSE
        [menu_display_error(m, "Invalid choice. Please try again.") EXCEPT !.ret = TRUE]

\* A main menu that leaves its loop on an invalid choice
menu_core_handle_input_exit(m, input) ==
    IF StrEq(input, Str1) THEN
        [uart_handler_write_string(m, "Lights control selected.\r\n") EXCEPT !.ret = "sub"]
    ELSE IF StrEq(input, Str2) THEN
        [menu_actions_execute(uart_handler_write_string(m, "Sensor readings selected.\r\n"), 2, 0)
            EXCEPT !.ret = "continue"]
    ELSE IF StrEq(input, Str3) THEN
        [menu_actions_execute(uart_handler_write_string(m, "System configuration selected.\r\n"), 3, 0)
            EXCEPT !.ret = "continue"]
    ELSE IF StrEq(input, Str4) THEN
        [menu_actions_execute(uart_handler_write_string(m, "Diagnostics and logs selected.\r\n"), 4, 0)
            EXCEPT !.ret = "continue"]
    ELSE IF StrEq(input, Str0) THEN
        [uart_handler_write_string(m, "Exiting menu.\r\n") EXCEPT !.ret = "exit"]
    ELSE
        [menu_display_error(m, "Invalid choice. Please try again.") EXCEPT !.ret = "exit"]

\* A main menu whose choice "1" turns the lights on at once, without a
\* sub-menu
menu_core_handle_input_direct(m, input) ==
    IF StrEq(input, Str1) THEN
        [menu_actions_execute(uart_handler_write_string(m, "Lights control selected.\r\n"), 1, 0)
            EXCEPT !.ret = "continue"]
    ELSE IF StrEq(input, Str2) THEN
        [menu_actions_execute(uart_handler_write_string(m, "Sensor readings selected.\r\n"), 2, 0)
            EXCEPT !.ret = "continue"]
    ELSE IF StrEq(input, Str3) THEN
        [menu_actions_execute(uart_handler_write_string(m, "System configuration selected.\r\n"), 3, 0)
            EXCEPT !.ret = "continue"]
    ELSE IF StrEq(input, Str4) THEN
        [menu_actions_execute(uart_handler_write_string(m, "Diagnostics and logs selected.\r\n"), 4, 0)
            EXCEPT !.ret = "continue"]
    ELSE IF StrEq(input, Str0) THEN
        [uart_handler_write_string(m, "Exiting menu.\r\n") EXCEPT !.ret = "exit"]
    ELSE
        [menu_display_error(m, "Invalid choice. Please try again.") EXCEPT !.ret = "continue"]

\* A main menu that passes the category of the entry above the one chosen
menu_core_handle_input_shifted(m, input) ==
    IF StrEq(input, Str1) THEN
        [uart_handler_write_string(m, "Lights control selected.\r\n") EXCEPT !.ret = "sub"]
    ELSE IF StrEq(input, Str2) THEN
        [menu_actions_execute(uart_handler_write_string(m, "Sensor readings selected.\r\n"), 1, 0)
            EXCEPT !.ret = "continue"]
    ELSE IF StrEq(input, Str3) THEN
        [menu_actions_execute(uart_handler_write_string(m, "System configuration selected.\r\n"), 2, 0)
            EXCEPT !.ret = "continue"]
    ELSE IF StrEq(input, Str4) THEN
        [menu_actions_execute(uart_handler_write_string(m, "Diagnostics and logs selected.\r\n"), 3, 0)
            EXCEPT !.ret = "continue"]
    ELSE IF StrEq(input, Str0) THEN
        [uart_handler_write_string(m, "Exiting menu.\r\n") EXCEPT !.ret = "exit"]
    ELSE
        [menu_display_error(m, "Invalid choice. Please try again.") EXCEPT !.ret = "continue"]

\* menu_core_handle_input up to the point where it returns or calls
\* menu_core_run_lights_menu.  The result has ret = "sub" when the lights
\* sub-menu is to be run, "continue" when the function returns true and
\* "exit" when it returns false.
menu_core_handle_input(m, input) ==
    IF StrEq(input, Str1) THEN
        [uart_handler_write_string(m, "Lights control selected.\r\n") EXCEPT !.ret = "sub"]
    ELSE IF StrEq(input, Str2) THEN
        [menu_actions_execute(uart_handler_write_string(m, "Sensor readings selected.\r\n"), 2, 0)
            EXCEPT !.ret = "continue"]
    ELSE IF StrEq(input, Str3) THEN
        [menu_actions_execute(uart_handler_write_string(m, "System configuration selected.\r\n"), 3, 0)
            EXCEPT !.ret = "continue"]
    ELSE IF StrEq(input, Str4) THEN
        [menu_actions_execute(uart_handler_write_string(m, "Diagnostics and logs selected.\r\n"), 4, 0)
            EXCEPT !.ret = "continue"]
    ELSE IF StrEq(input, Str0) THEN
        [uart_handler_write_string(m, "Exiting menu.\r\n") EXCEPT !.ret = "exit"]
    ELSE
        [menu_display_error(m, "Invalid choice. Please try again.") EXCEPT !.ret = "continue"]

\* The state a step of the main thread starts from
StepStart ==
    [on |-> on_state, br |-> brightness,
     out |-> <<>>, log |-> <<>>, disp |-> <<>>, ret |-> 0]

\* A queue that hands out its oldest line and keeps it
k_msgq_get_peek(q) == [q |-> q, data |-> Head(q), ret |-> 0]

\* A queue that hands out its newest line first
k_msgq_get_newest(q) == [q |-> SubSeq(q, 1, Len(q) - 1), data |-> q[Len(q)], ret |-> 0]

\* k_msgq_get(&uart_msgq, dest, K_FOREVER) on a queue that holds a line: the
\* oldest line is copied out and its slot is freed.
k_msgq_get(q) == [q |-> Tail(q), data |-> Head(q), ret |-> 0]

\* A queue whose get tells an empty queue the same way whether it waited or
\* not
k_msgq_get_timeout_nomsg(q, timeout) ==
    IF q # <<>> THEN k_msgq_get(q)
    ELSE [q |-> q, data |-> <<>>, ret |-> -ENOMSG]

\* k_msgq_get(&uart_msgq, dest, timeout) with timeout K_NO_WAIT or
\* K_MSEC(10), when no line arrives while it waits: a queue that holds a
\* line hands out the oldest, an empty queue makes the call fail and leaves
\* dest alone.
k_msgq_get_timeout(q, timeout) ==
    IF q # <<>> THEN k_msgq_get(q)
    ELSE [q |-> q, data |-> <<>>,
          ret |-> IF timeout = "K_NO_WAIT" THEN -ENOMSG ELSE -EAGAIN]

\* k_msgq_get copies a whole slot of UART_MSG_SIZE bytes: the number of bytes
\* that land past the end of a destination of cap bytes.
BytesPastEnd(cap) == IF UART_MSG_SIZE > cap THEN UART_MSG_SIZE - cap ELSE 0

\* menu_core_run from the test of its loop to the next k_msgq_get, or to the
\* end of main when the loop is left.  cont is the local flag run.
MainLoopTop(m, cont) ==
    IF cont
    THEN [m |-> menu_core_display_main_menu(m), pc |-> "main_get", run |-> TRUE]
    ELSE [m |-> uart_handler_write_string(Log(m, "INF", "menu_core"),
                                          "Menu exited. Shutting down.\r\n"),
          pc |-> "done", run |-> TRUE]

\* A lights sub-menu whose flag stays cleared when the main menu resumes
LightsLoopTop_flag_stays_cleared(m, flag) ==
    IF flag
    THEN [m |-> menu_core_display_lights_menu(m), pc |-> "lights_get", run |-> flag]
    ELSE [MainLoopTop(Log(m, "INF", "menu_core"), TRUE) EXCEPT !.run = FALSE]

\* A lights sub-menu that waits for its input without displaying its menu
LightsLoopTop_no_display(m, flag) ==
    IF flag
    THEN [m |-> m, pc |-> "lights_get", run |-> flag]
    ELSE MainLoopTop(Log(m, "INF", "menu_core"), TRUE)

\* A lights sub-menu whose cleared flag also ends the loop of the main menu
LightsLoopTop_shared_flag(m, flag) ==
    IF flag
    THEN [m |-> menu_core_display_lights_menu(m), pc |-> "lights_get", run |-> flag]
    ELSE MainLoopTop(Log(m, "INF", "menu_core"), flag)

\* menu_core_run_lights_menu from the test of its loop to the next
\* k_msgq_get; when the loop is left, menu_core_handle_input sets run again
\* and returns true to menu_core_run.  flag is the file-level flag run.
LightsLoopTop(m, flag) ==
    IF flag
    THEN [m |-> menu_core_display_lights_menu(m), pc |-> "lights_get", run |-> flag]
    ELSE MainLoopTop(Log(m, "INF", "menu_core"), TRUE)

\* One pass of the loop of menu_core_run for the line k_msgq_get returned.
MainPass(line) ==
    LET m == menu_core_handle_input(StepStart, line)
    IN  IF m.ret = "sub" THEN LightsLoopTop(m, run)
        ELSE MainLoopTop(m, m.ret = "continue")

\* One pass of the loop of menu_core_run_lights_menu for the line k_msgq_get
\* returned.
LightsPass(line) ==
    LET m == menu_core_handle_lights_input(StepStart, line)
    IN  LightsLoopTop(m, m.ret)

\* A start-up that enables the RX interrupt before it registers the callback
uart_handler_init_enable_first(m, dev_ready, cb_ret) ==
    IF ~dev_ready
    THEN [m |-> [Log(m, "ERR", "uart_handler") EXCEPT !.ret = -ENODEV], rx |-> FALSE]
    ELSE IF cb_ret < 0
    THEN [m |-> [Log(m, "ERR", "uart_handler") EXCEPT !.ret = cb_ret], rx |-> TRUE]
    ELSE [m |-> [Log(m, "INF", "uart_handler") EXCEPT !.ret = 0], rx |-> TRUE]

\* uart_handler_init: dev_ready is what device_is_ready returns, cb_ret what
\* uart_irq_callback_user_data_set returns.  In the result, rx tells whether
\* uart_irq_rx_enable has been called.
uart_handler_init(m, dev_ready, cb_ret) ==
    IF ~dev_ready
    THEN [m |-> [Log(m, "ERR", "uart_handler") EXCEPT !.ret = -ENODEV], rx |-> FALSE]
    ELSE IF cb_ret < 0
    THEN [m |-> [Log(m, "ERR", "uart_handler") EXCEPT !.ret = cb_ret], rx |-> FALSE]
    ELSE [m |-> [Log(m, "INF", "uart_handler") EXCEPT !.ret = 0], rx |-> TRUE]

----------------------------------------------------------------------------
(* Inputs *)

\* The bytes one call of uart_irq_handler finds in the FIFO when the sender
\* types menu choices: "0" .. "5" and "11" ended by '\n', and "1" after an
\* empty line.
MenuChunks ==
    { <<d, LF>> : d \in {Ch0, Ch1, Ch2, Ch3, Ch4, Ch5} }
    \cup { <<Ch1, Ch1, LF>>, <<LF, Ch1, LF>> }

\* Length of the piece of a long line that arrives in one call
FillLen == 22

\* A piece of a long line, without a terminator
Filler == [i \in 1..FillLen |-> 97 + (i % 3)]

\* The bytes one call of uart_irq_handler finds in the FIFO when the sender
\* sends arbitrary text: an empty line, a short line ended by '\n' or by
\* "\r\n", and pieces of a long line.
RxChunks ==
    { <<LF>>, <<Ch5, LF>>, <<Ch5, CR, LF>>, Filler }

\* The bytes one call of uart_irq_handler finds in the FIFO when the order
\* of the lines is recorded
FifoChunks == { <<Ch0, LF>>, <<Ch1, LF>>, <<Ch5, LF>> }

\* Number of accepted lines the history records
MaxLog == 4

\* The categories and the action_ids the dispatcher is called with directly:
\* the valid ones, their neighbours, a negative one and 99
Categories == {-1, 0, 1, 2, 3, 4, 99}
ActionIds == {-1, 0, 1, 2, 3, 4, 99}

\* Number of consecutive calls of one driver operation the history counts
MaxStreak == 20

\* The pointers lights_control_get_state is called with: NULL, or storage
\* that holds a value the caller left there
StatePtrs ==
    { [null |-> TRUE, val |-> FALSE],
      [null |-> FALSE, val |-> FALSE],
      [null |-> FALSE, val |-> TRUE] }
LevelPtrs ==
    { [null |-> TRUE, val |-> 0],
      [null |-> FALSE, val |-> -1],
      [null |-> FALSE, val |-> InitialBrightness] }

\* The arrays k_msgq_put is called with directly: "Hello, UART Queue!" and
\* "1", each with its NUL
TestLines ==
    { <<72, 101, 108, 108, 111, 44, 32, 85, 65, 82, 84, 32, 81, 117, 101, 117, 101, 33, NUL>>,
      <<Ch1, NUL>> }

\* What may lie in memory behind such an array
BytesBehind == {NUL, LF, 170}

\* The waiting times k_msgq_get is called with directly
Timeouts == {"K_NO_WAIT", "K_MSEC"}

\* The pointers uart_handler_write_string is called with directly: NULL, the
\* empty string, "Test", and "1" in an array that holds more after its NUL
StrPtrs ==
    { [null |-> TRUE, bytes |-> <<>>],
      [null |-> FALSE, bytes |-> <<NUL>>],
      [null |-> FALSE, bytes |-> <<84, 101, 115, 116, NUL>>],
      [null |-> FALSE, bytes |-> <<Ch1, NUL, Ch2, NUL>>] }

\* The bytes one call of uart_irq_handler finds in the FIFO while the UART
\* handler is exercised: the end of a line and the start of the next, the
\* choice "0", and a terminator alone
UartChunks == { <<Ch5, LF, Ch5>>, <<Ch0, LF>>, <<LF>> }

\* The bytes one call of uart_irq_handler finds in the FIFO when calls end
\* in the middle of a line: the choices "1" and "0", and the choice "3" with
\* the start of the next line
FrameChunks == { <<Ch1, LF>>, <<Ch0, LF>>, <<Ch3, LF, Ch5>> }

\* The bytes one call of uart_irq_handler finds in the FIFO while the
\* dispatcher is called directly: the end of a line and the start of the next
CmdChunks == { <<Ch5, LF, Ch5>> }

----------------------------------------------------------------------------
(* The input as a sequence of lines: the runs of bytes other than '\n' and  *)
(* '\r', each cut to the UART_MSG_SIZE-1 bytes a slot has room for          *)

IsTerminator(c) == c = LF \/ c = CR

KeepByte(run_bytes, c) ==
    IF Len(run_bytes) < UART_MSG_SIZE - 1 THEN Append(run_bytes, c) ELSE run_bytes

RECURSIVE PendingRun(_, _)
\* The run still open after bytes, run_bytes being the run open before them
PendingRun(run_bytes, bytes) ==
    IF bytes = <<>> THEN run_bytes
    ELSE IF IsTerminator(Head(bytes)) THEN PendingRun(<<>>, Tail(bytes))
    ELSE PendingRun(KeepByte(run_bytes, Head(bytes)), Tail(bytes))

RECURSIVE TerminatedRuns(_, _)
\* The non-empty runs that bytes end with a terminator, in order
TerminatedRuns(run_bytes, bytes) ==
    IF bytes = <<>> THEN <<>>
    ELSE IF IsTerminator(Head(bytes))
    THEN (IF run_bytes = <<>> THEN <<>> ELSE <<run_bytes>>)
         \o TerminatedRuns(<<>>, Tail(bytes))
    ELSE TerminatedRuns(KeepByte(run_bytes, Head(bytes)), Tail(bytes))

----------------------------------------------------------------------------
(* Actions *)

Init ==
    /\ rx_buf = <<>>
    /\ rx_buf_pos = 0
    /\ uart_msgq = <<>>
    /\ rx_irq_enabled = FALSE
    /\ pc = "start"
    /\ run = TRUE
    /\ input_buffer = <<>>
    /\ overrun = 0
    /\ on_state = FALSE
    /\ brightness = InitialBrightness
    /\ last = "none"
    /\ uart_out = <<>>
    /\ log_out = <<>>
    /\ dispatched = <<>>
    /\ cur_run = <<>>
    /\ put_log = <<>>
    /\ got_log = <<>>
    /\ returned = <<>>
    /\ out_args = <<>>
    /\ streak = [op |-> "none", n |-> 0, from |-> InitialBrightness, before |-> "none"]

\* What one call of uart_irq_handler makes of the bytes in chunk
IrqResult(chunk) ==
    RxBytes([buf |-> rx_buf, pos |-> rx_buf_pos, q |-> uart_msgq,
             log |-> <<>>, put |-> <<>>], chunk)

\* A receiver that is switched off when main returns
Irq_stops_with_main(chunk) ==
    /\ rx_irq_enabled
    /\ pc # "done"
    /\ LET r == IrqResult(chunk)
       IN  /\ rx_buf' = r.buf
           /\ rx_buf_pos' = r.pos
           /\ uart_msgq' = r.q
           /\ log_out' = r.log
    /\ last' = "irq"
    /\ uart_out' = <<>>
    /\ dispatched' = <<>>
    /\ UNCHANGED <<rx_irq_enabled, menuvars, lightvars>>

\* A receiver that waits until the queue has a free slot
Irq_wait_for_room(chunk) ==
    /\ rx_irq_enabled
    /\ Len(uart_msgq) < UART_MSGQ_LEN
    /\ LET r == IrqResult(chunk)
       IN  /\ rx_buf' = r.buf
           /\ rx_buf_pos' = r.pos
           /\ uart_msgq' = r.q
           /\ log_out' = r.log
    /\ last' = "irq"
    /\ uart_out' = <<>>
    /\ dispatched' = <<>>
    /\ UNCHANGED <<rx_irq_enabled, menuvars, lightvars>>

Irq(chunk) ==
    /\ rx_irq_enabled
    /\ LET r == IrqResult(chunk)
       IN  /\ rx_buf' = r.buf
           /\ rx_buf_pos' = r.pos
           /\ uart_msgq' = r.q
           /\ log_out' = r.log
    /\ last' = "irq"
    /\ uart_out' = <<>>
    /\ dispatched' = <<>>
    /\ UNCHANGED <<rx_irq_enabled, menuvars, lightvars>>

\* The effect of a step of the main thread that ends as res says
Commit(res) ==
    /\ pc' = res.pc
    /\ run' = res.run
    /\ on_state' = res.m.on
    /\ brightness' = res.m.br
    /\ uart_out' = res.m.out
    /\ log_out' = res.m.log
    /\ dispatched' = res.m.disp

\* main: from its start to the first k_msgq_get of menu_core_run, or to its
\* return when uart_handler_init fails
Boot(dev_ready, cb_ret) ==
    /\ pc = "start"
    /\ LET r == uart_handler_init(StepStart, dev_ready, cb_ret)
       IN  /\ IF r.m.ret < 0
              THEN Commit([m |-> Log(r.m, "PRINTK", "main"), pc |-> "init_failed", run |-> run])
              ELSE Commit(MainLoopTop(
                       Log(uart_handler_write_string(r.m, "Welcome! Starting the menu...\r\n"),
                           "INF", "menu_core"), TRUE))
           /\ rx_irq_enabled' = r.rx
           /\ returned' = <<r.m.ret>>
    /\ out_args' = <<>>
    /\ last' = "boot"
    /\ UNCHANGED <<rxvars, uart_msgq, input_buffer, overrun>>

\* A main menu that takes a line only when every slot of the queue is in use
MainGet_wait_full ==
    /\ pc = "main_get"
    /\ Len(uart_msgq) = UART_MSGQ_LEN
    /\ LET g == k_msgq_get(uart_msgq)
       IN  /\ uart_msgq' = g.q
           /\ input_buffer' = g.data
           /\ overrun' = BytesPastEnd(menu_input_max_len)
           /\ Commit(MainPass(g.data))
    /\ last' = "main"
    /\ UNCHANGED <<rxvars, rx_irq_enabled>>

\* menu_core_run: k_msgq_get returns a line, the line is handled, and the
\* thread runs on to its next k_msgq_get
MainGet ==
    /\ pc = "main_get"
    /\ uart_msgq # <<>>
    /\ LET g == k_msgq_get(uart_msgq)
       IN  /\ uart_msgq' = g.q
           /\ input_buffer' = g.data
           /\ overrun' = BytesPastEnd(menu_input_max_len)
           /\ Commit(MainPass(g.data))
    /\ last' = "main"
    /\ UNCHANGED <<rxvars, rx_irq_enabled>>

\* A lights sub-menu that empties the receiver's buffer when it takes a line
LightsGet_flush_rx ==
    /\ pc = "lights_get"
    /\ uart_msgq # <<>>
    /\ LET g == k_msgq_get(uart_msgq)
       IN  /\ uart_msgq' = g.q
           /\ input_buffer' = g.data
           /\ overrun' = BytesPastEnd(menu_input_max_len)
           /\ Commit(LightsPass(g.data))
    /\ last' = "lights"
    /\ rx_buf' = <<>>
    /\ rx_buf_pos' = 0
    /\ UNCHANGED rx_irq_enabled

\* menu_core_run_lights_menu: the same for the lights sub-menu
LightsGet ==
    /\ pc = "lights_get"
    /\ uart_msgq # <<>>
    /\ LET g == k_msgq_get(uart_msgq)
       IN  /\ uart_msgq' = g.q
           /\ input_buffer' = g.data
           /\ overrun' = BytesPastEnd(menu_input_max_len)
           /\ Commit(LightsPass(g.data))
    /\ last' = "lights"
    /\ UNCHANGED <<rxvars, rx_irq_enabled>>

\* A main menu that gives up when it cannot read its input
MainGetFailed_exit ==
    /\ pc = "main_get"
    /\ input_buffer' = <<>>
    /\ overrun' = 0
    /\ Commit(MainLoopTop(menu_display_error(StepStart, "Failed to read input."), FALSE))
    /\ last' = "main_failed"
    /\ UNCHANGED <<rxvars, rx_irq_enabled, uart_msgq>>

\* menu_core_run when k_msgq_get returns a non-zero result: no line is taken
\* from the queue, the buffer stays as memset left it, the error is displayed
\* and the loop goes on to its next k_msgq_get
MainGetFailed ==
    /\ pc = "main_get"
    /\ input_buffer' = <<>>
    /\ overrun' = 0
    /\ Commit(MainLoopTop(menu_display_error(StepStart, "Failed to read input."), TRUE))
    /\ last' = "main_failed"
    /\ UNCHANGED <<rxvars, rx_irq_enabled, uart_msgq>>

\* menu_core_run_lights_menu when k_msgq_get returns a non-zero result
LightsGetFailed ==
    /\ pc = "lights_get"
    /\ input_buffer' = <<>>
    /\ overrun' = 0
    /\ Commit(LightsLoopTop(menu_display_error(StepStart, "Failed to read input."), run))
    /\ last' = "lights_failed"
    /\ UNCHANGED <<rxvars, rx_irq_enabled, uart_msgq>>

main ==
    \E dev_ready \in BOOLEAN, cb_ret \in {0, -1} :
        Boot(dev_ready, cb_ret) /\ UNCHANGED histvars /\ UNCHANGED streak

uart_irq_handler ==
    \E chunk \in MenuChunks :
        Irq(chunk) /\ cur_run' = PendingRun(cur_run, chunk) /\ UNCHANGED <<put_log, got_log, callvars>>

menu_core_run == MainGet /\ UNCHANGED histvars /\ UNCHANGED callvars

menu_core_run_lights_menu == LightsGet /\ UNCHANGED histvars /\ UNCHANGED callvars

Next ==
    \/ main
    \/ uart_irq_handler
    \/ menu_core_run
    \/ menu_core_run_lights_menu

\* The whole program, the sender typing menu choices
Spec == Init /\ [][Next]_vars

uart_irq_handler_rx ==
    \E chunk \in RxChunks :
        Irq(chunk) /\ cur_run' = PendingRun(cur_run, chunk) /\ UNCHANGED <<put_log, got_log, callvars>>

NextRx ==
    \/ main
    \/ uart_irq_handler_rx
    \/ menu_core_run

\* The program under arbitrary text, none of it a menu choice: the lights
\* sub-menu is never entered
SpecRx == Init /\ [][NextRx]_vars

uart_irq_handler_fifo ==
    \E chunk \in FifoChunks :
        /\ Len(put_log) < MaxLog
        /\ Irq(chunk)
        /\ put_log' = put_log \o IrqResult(chunk).put
        /\ cur_run' = PendingRun(cur_run, chunk)
        /\ UNCHANGED <<got_log, callvars>>

menu_core_run_fifo ==
    MainGet /\ got_log' = Append(got_log, input_buffer') /\ UNCHANGED <<cur_run, put_log, callvars>>

menu_core_run_lights_menu_fifo ==
    LightsGet /\ got_log' = Append(got_log, input_buffer') /\ UNCHANGED <<cur_run, put_log, callvars>>

NextFifo ==
    \/ main
    \/ uart_irq_handler_fifo
    \/ menu_core_run_fifo
    \/ menu_core_run_lights_menu_fifo

\* The whole program with the lines put and the lines got recorded, up to
\* MaxLog accepted lines
SpecFifo == Init /\ [][NextFifo]_vars

\* The same under the scheduling of the menu thread: main is the only
\* thread of the program and the interrupt handler returns after the bytes
\* of the FIFO, so a k_msgq_get(K_FOREVER) on a queue that holds a line
\* returns, in the main menu and in the lights sub-menu.  Nothing obliges the
\* sender to send.
SpecFifoFair ==
    /\ Init /\ [][NextFifo]_vars
    /\ WF_vars(main)
    /\ WF_vars(menu_core_run_fifo)
    /\ WF_vars(menu_core_run_lights_menu_fifo)

\* The driver operation commands_core_execute(category, action_id) performs
DriverOp(category, action_id) ==
    IF category # 1 THEN "none"
    ELSE CASE action_id = 0 -> "on"
           [] action_id = 1 -> "off"
           [] action_id = 2 -> "inc"
           [] action_id = 3 -> "dec"
           [] OTHER -> "none"

\* The history after the driver operation op
NextStreak(op) ==
    IF op = streak.op /\ op # "none"
    THEN [streak EXCEPT !.n = IF @ < MaxStreak THEN @ + 1 ELSE @]
    ELSE [op |-> op, n |-> IF op = "none" THEN 0 ELSE 1,
          from |-> brightness, before |-> streak.op]

\* The effect of a direct call that ends as m says
CommitCall(m) ==
    /\ on_state' = m.on
    /\ brightness' = m.br
    /\ uart_out' = m.out
    /\ log_out' = m.log
    /\ dispatched' = m.disp
    /\ UNCHANGED <<rxvars, uart_msgq, rx_irq_enabled, menuvars, histvars>>

\* A direct call of commands_core_execute, as the tests make it.  The
\* function is declared void: the call yields no value.
call_commands_core_execute ==
    \E category \in Categories, action_id \in ActionIds :
        /\ CommitCall(commands_core_execute(StepStart, category, action_id))
        /\ returned' = <<>>
        /\ out_args' = <<>>
        /\ last' = "dispatch"
        /\ streak' = NextStreak(DriverOp(category, action_id))

\* A direct call of a driver function that ends as m says
DriverCall(m, op) ==
    /\ CommitCall(m)
    /\ returned' = <<m.ret>>
    /\ out_args' = <<>>
    /\ last' = "driver"
    /\ streak' = NextStreak(op)

call_lights_control_turn_on == DriverCall(lights_control_turn_on(StepStart), "on")

call_lights_control_turn_off == DriverCall(lights_control_turn_off(StepStart), "off")

call_lights_control_increase_brightness ==
    DriverCall(lights_control_increase_brightness(StepStart), "inc")

call_lights_control_decrease_brightness ==
    DriverCall(lights_control_decrease_brightness(StepStart), "dec")

uart_irq_handler_cmd ==
    \E chunk \in CmdChunks :
        Irq(chunk) /\ cur_run' = PendingRun(cur_run, chunk) /\ UNCHANGED <<put_log, got_log, callvars>>

NextCmd ==
    \/ main
    \/ uart_irq_handler_cmd
    \/ call_commands_core_execute
    \/ call_lights_control_turn_on
    \/ call_lights_control_turn_off
    \/ call_lights_control_increase_brightness
    \/ call_lights_control_decrease_brightness

\* The dispatcher and the lights driver called directly, in any order, while
\* the receiver runs and the menu consumes nothing
SpecCmd == Init /\ [][NextCmd]_vars

\* A direct call of lights_control_get_state(state, level)
call_lights_control_get_state ==
    \E state \in StatePtrs, level \in LevelPtrs :
        LET r == lights_control_get_state(StepStart, state, level)
        IN  /\ CommitCall(r.m)
            /\ returned' = <<r.m.ret>>
            /\ out_args' = <<state, level, r.state, r.level>>
            /\ last' = "query"
            /\ streak' = NextStreak("none")

NextQuery ==
    \/ call_lights_control_turn_on
    \/ call_lights_control_turn_off
    \/ call_lights_control_increase_brightness
    \/ call_lights_control_decrease_brightness
    \/ call_lights_control_get_state

\* The lights driver called directly, its operations and its query in any
\* order
SpecQuery == Init /\ [][NextQuery]_vars

\* A direct call of k_msgq_put(&uart_msgq, array, K_NO_WAIT), as the tests
\* make it.  k_msgq_put reads UART_MSG_SIZE bytes: the array and, the array
\* being shorter, the bytes that lie behind it, here all equal to fill.
PutCall(array, fill) ==
    LET read == array \o [i \in 1..(UART_MSG_SIZE - Len(array)) |-> fill]
        res == k_msgq_put(uart_msgq, CStr(read))
    IN  /\ uart_msgq' = res.q
        /\ returned' = <<res.ret>>
        /\ out_args' = << [null |-> FALSE, val |-> array], [null |-> FALSE, val |-> array] >>
        /\ last' = "put"
        /\ uart_out' = <<>>
        /\ log_out' = <<>>
        /\ dispatched' = <<>>
        /\ UNCHANGED <<rxvars, rx_irq_enabled, menuvars, lightvars, histvars, streak>>

call_k_msgq_put == \E array \in TestLines, fill \in BytesBehind : PutCall(array, fill)

\* A direct call of k_msgq_get(&uart_msgq, dest, timeout), as the tests make
\* it, dest an array of UART_MSG_SIZE bytes cleared before the call
GetCall(timeout) ==
    LET g == k_msgq_get_timeout(uart_msgq, timeout)
        dest == [null |-> FALSE, val |-> <<NUL>>]
    IN  /\ uart_msgq' = g.q
        /\ returned' = <<g.ret>>
        /\ out_args' = << dest, IF g.ret = 0 THEN [dest EXCEPT !.val = Append(g.data, NUL)]
                                 ELSE dest >>
        /\ last' = "get"
        /\ uart_out' = <<>>
        /\ log_out' = <<>>
        /\ dispatched' = <<>>
        /\ UNCHANGED <<rxvars, rx_irq_enabled, menuvars, lightvars, histvars, streak>>

call_k_msgq_get == \E timeout \in Timeouts : GetCall(timeout)

\* A direct call of uart_handler_write_string(str), as the tests make it
WriteCall(str) ==
    LET m == uart_handler_write_string_ptr(StepStart, str)
    IN  /\ CommitCall(m)
        /\ returned' = <<m.ret>>
        /\ out_args' = <<>>
        /\ last' = "write"
        /\ UNCHANGED streak

call_uart_handler_write_string == \E str \in StrPtrs : WriteCall(str)

\* One call of uart_irq_handler that finds the bytes of chunk in the FIFO
IrqStep(chunk) ==
    Irq(chunk) /\ cur_run' = PendingRun(cur_run, chunk) /\ UNCHANGED <<put_log, got_log, callvars>>

uart_irq_handler_uart == \E chunk \in UartChunks : IrqStep(chunk)

NextUart ==
    \/ main
    \/ uart_irq_handler_uart
    \/ menu_core_run
    \/ call_uart_handler_write_string

\* The UART handler: start-up, the receiver, the menu consuming lines that
\* are no menu choices, and direct calls of uart_handler_write_string
SpecUart == Init /\ [][NextUart]_vars

uart_irq_handler_fault == \E chunk \in FifoChunks : IrqStep(chunk)

menu_core_run_get_failed == MainGetFailed /\ UNCHANGED histvars /\ UNCHANGED callvars

menu_core_run_lights_menu_get_failed ==
    LightsGetFailed /\ UNCHANGED histvars /\ UNCHANGED callvars

NextFault ==
    \/ main
    \/ uart_irq_handler_fault
    \/ menu_core_run
    \/ menu_core_run_lights_menu
    \/ menu_core_run_get_failed
    \/ menu_core_run_lights_menu_get_failed

\* The whole program when k_msgq_get may return a non-zero result
SpecFault == Init /\ [][NextFault]_vars

NextQueue ==
    \/ main
    \/ uart_irq_handler_uart
    \/ call_k_msgq_put
    \/ call_k_msgq_get

\* The queue used directly, as the tests use it, while the receiver runs and
\* the menu consumes nothing
SpecQueue == Init /\ [][NextQueue]_vars

uart_irq_handler_frame == \E chunk \in FrameChunks : IrqStep(chunk)

NextFrame ==
    \/ main
    \/ uart_irq_handler_frame
    \/ menu_core_run
    \/ menu_core_run_lights_menu

\* The whole program, the calls of the receiver ending in the middle of a
\* line as well as at its end
SpecFrame == Init /\ [][NextFrame]_vars

----------------------------------------------------------------------------
(* Properties *)

Has(seq, x) == \E i \in 1..Len(seq) : seq[i] = x

IsPrefix(a, b) == Len(a) <= Len(b) /\ SubSeq(b, 1, Len(a)) = a

\* The single-character tokens the menus accept
MenuTokens == {Str0, Str1, Str2, Str3, Str4}

\* What menu_display_error writes for an invalid choice
InvalidChoiceError == <<"Error: ", "Invalid choice. Please try again.", "\r\n">>

\* The end of what menu_display_show_main_menu writes
MainMenuShown == uart_out # <<>> /\ uart_out[Len(uart_out)] = "Enter your choice: "

\* C1: while the queue has room, a call of the receiver adds to the queue
\* exactly the runs of non-terminator bytes that its input ends with a
\* terminator, one line per run, each line equal to the bytes of its run cut
\* to the first UART_MSG_SIZE-1.
C1_RunsBecomeLines ==
    [][\A chunk \in RxChunks :
          (/\ Irq(chunk)
           /\ Len(uart_msgq) + Len(TerminatedRuns(cur_run, chunk)) <= UART_MSGQ_LEN)
          => uart_msgq' = uart_msgq \o TerminatedRuns(cur_run, chunk)]_vars

\* C2: a terminator byte received while the cursor is 0 is ignored: the
\* cursor stays 0, the accumulation buffer is unchanged and no line is
\* enqueued.
C2_TerminatorAtCursorZeroIgnored ==
    [][\A chunk \in RxChunks :
          (/\ Irq(chunk)
           /\ rx_buf_pos = 0
           /\ Len(chunk) = 1
           /\ IsTerminator(chunk[1]))
          => (rx_buf_pos' = 0 /\ rx_buf' = rx_buf /\ uart_msgq' = uart_msgq)]_vars

\* C3: the queue never holds more than UART_MSGQ_LEN lines, and a put on a
\* full queue fails at once (the receiver logs its warning) and leaves the
\* queued lines and their order as they were.
C3_QueueBounded ==
    /\ [](Len(uart_msgq) <= UART_MSGQ_LEN)
    /\ [][\A chunk \in MenuChunks :
             (Irq(chunk) /\ Len(uart_msgq) = UART_MSGQ_LEN)
             => (/\ uart_msgq' = uart_msgq
                 /\ log_out' = << <<"WRN", "uart_handler">> >>)]_vars

\* C3 witness: the receiver has just had a put refused by the full queue
C3_Witness ==
    /\ last = "irq"
    /\ Len(uart_msgq) = UART_MSGQ_LEN
    /\ log_out = << <<"WRN", "uart_handler">> >>

\* C4: the lines the menu has got are, in order, the first of the lines the
\* queue has accepted.
C4_FifoOrder == IsPrefix(got_log, put_log)

\* C4 witness: the menu has got MaxLog lines, not all the same, some of them
\* in the lights sub-menu
C4_Witness ==
    /\ Len(got_log) = MaxLog
    /\ got_log[1] # got_log[2]
    /\ pc = "lights_get"

\* C5: the menu starts in MAIN, and menu_core_run returns only in the step
\* that consumes the line "0" in MAIN.
C5_ExitOnlyByZeroInMain ==
    [][/\ (pc = "start" /\ pc' # "start") => pc' \in {"main_get", "init_failed"}
       /\ (pc # "done" /\ pc' = "done")
            => (/\ pc = "main_get"
                /\ uart_msgq # <<>>
                /\ Head(uart_msgq) = Str0
                /\ last' = "main"
                /\ input_buffer' = Str0)]_vars

\* C5 witness: menu_core_run has returned after "0" in MAIN
C5_Witness == pc = "done" /\ last = "main" /\ input_buffer = Str0

\* C6: in LIGHTS_SUB the line "1", "2", "3" or "4" dispatches exactly one
\* command, (1, 0), (1, 1), (1, 2) or (1, 3), and the menu stays in
\* LIGHTS_SUB.
C6_LightsChoiceDispatches ==
    \A k \in 1..4 :
        (last = "lights" /\ input_buffer = <<Ch0 + k>>)
        => (dispatched = << <<1, k - 1>> >> /\ pc = "lights_get")

\* C6 witness: "4" has been consumed in LIGHTS_SUB
C6_Witness ==
    last = "lights" /\ input_buffer = Str4 /\ dispatched = << <<1, 3>> >>

\* C7: in LIGHTS_SUB the line "0" prints the return message, dispatches
\* nothing and takes the menu to MAIN: the main menu is shown again and the
\* thread waits in menu_core_run for the next line.
C7_LightsZeroReturnsToMain ==
    (last = "lights" /\ input_buffer = Str0)
    => (/\ pc = "main_get"
        /\ run
        /\ dispatched = <<>>
        /\ uart_out[1] = "Returning to main menu...\r\n"
        /\ MainMenuShown)

\* C7 witness: "0" has been consumed in LIGHTS_SUB
C7_Witness == last = "lights" /\ input_buffer = Str0 /\ pc = "main_get"

\* C8: in MAIN the line "1" prints a confirmation and takes the menu to
\* LIGHTS_SUB; nothing is dispatched and the Light State is unchanged.
C8_MainOneEntersLights ==
    [][(pc = "main_get" /\ last' = "main" /\ input_buffer' = Str1)
       => (/\ pc' = "lights_get"
           /\ dispatched' = <<>>
           /\ on_state' = on_state
           /\ brightness' = brightness
           /\ uart_out'[1] = "Lights control selected.\r\n")]_vars

\* C8 witness: LIGHTS_SUB has been entered again with the lights on and the
\* brightness changed
C8_Witness ==
    /\ last = "main"
    /\ input_buffer = Str1
    /\ pc = "lights_get"
    /\ on_state
    /\ brightness # InitialBrightness

\* C9: in MAIN the line "2", "3" or "4" dispatches exactly one command,
\* (2, 0), (3, 0) or (4, 0), and the menu stays in MAIN.
C9_MainChoiceDispatches ==
    \A k \in 2..4 :
        (last = "main" /\ input_buffer = <<Ch0 + k>>)
        => (dispatched = << <<k, 0>> >> /\ pc = "main_get")

\* C9 witness: "3" has been consumed in MAIN
C9_Witness ==
    last = "main" /\ input_buffer = Str3 /\ dispatched = << <<3, 0>> >>

\* C10: in MAIN and in LIGHTS_SUB a line that is none of "0" .. "4" displays
\* the error, dispatches nothing, leaves the Light State unchanged and keeps
\* the menu in the state it was in.
C10_InvalidChoiceRejected ==
    [][(/\ pc \in {"main_get", "lights_get"}
        /\ last' \in {"main", "lights"}
        /\ input_buffer' \notin MenuTokens)
       => (/\ pc' = pc
           /\ dispatched' = <<>>
           /\ on_state' = on_state
           /\ brightness' = brightness
           /\ IsPrefix(InvalidChoiceError, uart_out'))]_vars

\* C10 witness: a line with a leading control character has been consumed in
\* LIGHTS_SUB with the lights on
C10_Witness ==
    /\ last = "lights"
    /\ input_buffer = <<LF, Ch1>>
    /\ pc = "lights_get"
    /\ on_state
    /\ dispatched = <<>>

\* C11: from the initial state the consumed lines "1", "1", "0", "0" take the
\* menu from MAIN to LIGHTS_SUB, keep it in LIGHTS_SUB with the light turned
\* on and "Lights turned ON." written, take it back to MAIN and then make
\* menu_core_run return.
C11_EndToEnd ==
    /\ (got_log = <<>> /\ last = "boot" /\ rx_irq_enabled) => pc = "main_get"
    /\ got_log = <<Str1>> => (pc = "lights_get" /\ ~on_state)
    /\ got_log = <<Str1, Str1>>
         => (/\ pc = "lights_get"
             /\ on_state
             /\ last = "lights" => (/\ Has(uart_out, "Lights turned ON.\r\n")
                                    /\ dispatched = << <<1, 0>> >>))
    /\ got_log = <<Str1, Str1, Str0>> => (pc = "main_get" /\ on_state)
    /\ got_log = <<Str1, Str1, Str0, Str0>> => (pc = "done" /\ on_state)

\* C11 witness: the four lines have been consumed and menu_core_run has
\* returned with the light on
C11_Witness ==
    got_log = <<Str1, Str1, Str0, Str0>> /\ pc = "done" /\ on_state /\ last = "main"

\* C12: after any sequence of dispatcher and driver operations from the
\* initial state, brightness is an integer between 0 and 100.
C12_BrightnessInRange == brightness \in 0..100

\* C12 witness: brightness has been taken to 100 and an increase has been
\* requested again, through the dispatcher
C12_Witness ==
    /\ brightness = 100
    /\ last = "dispatch"
    /\ streak.op = "inc"
    /\ streak.n > 5

\* An error event of the lights commands
LightsCommandError == <<"ERR", "command_lights">>

\* C13: dispatch(LIGHTS, 2) adds 10 to a brightness of at most 90 and sets
\* any other brightness to 100; the driver succeeds and the confirmation
\* "Brightness increased." is written, not the failure message.
C13_IncreaseBrightness ==
    [][(last' = "dispatch" /\ dispatched' = << <<1, 2>> >>)
       => (/\ brightness' = (IF brightness <= 90 THEN brightness + 10 ELSE 100)
           /\ uart_out' = <<"Brightness increased.\r\n">>
           /\ ~Has(log_out', LightsCommandError))]_vars

\* C13 witness: an increase through the dispatcher has taken the brightness
\* from 90 to 100
C13_Witness ==
    /\ last = "dispatch"
    /\ dispatched = << <<1, 2>> >>
    /\ streak = [op |-> "inc", n |-> 1, from |-> 90, before |-> "dec"]
    /\ brightness = 100

\* C14: dispatch(LIGHTS, 3) subtracts 10 from a brightness of at least 10 and
\* sets any other brightness to 0; the driver succeeds and the confirmation
\* "Brightness decreased." is written, not the failure message.
C14_DecreaseBrightness ==
    [][(last' = "dispatch" /\ dispatched' = << <<1, 3>> >>)
       => (/\ brightness' = (IF brightness >= 10 THEN brightness - 10 ELSE 0)
           /\ uart_out' = <<"Brightness decreased.\r\n">>
           /\ ~Has(log_out', LightsCommandError))]_vars

\* C14 witness: a decrease through the dispatcher has been requested at
\* brightness 0
C14_Witness ==
    /\ last = "dispatch"
    /\ dispatched = << <<1, 3>> >>
    /\ streak.op = "dec"
    /\ streak.from = 0
    /\ brightness = 0

\* C15: every increase and every decrease returns 0; n consecutive increases
\* from brightness 50 leave the brightness at 50 + 10 n, or at 100 once that
\* is reached, and 100 after the 20th; n consecutive decreases after them
\* leave it at 100 - 10 n, or at 0 once that is reached, and 0 after the
\* 20th.
C15_Saturation ==
    /\ (last = "driver" /\ streak.op \in {"inc", "dec"}) => returned = <<0>>
    /\ (streak.op = "inc" /\ streak.from = InitialBrightness)
         => (/\ brightness = (IF InitialBrightness + 10 * streak.n <= 100
                              THEN InitialBrightness + 10 * streak.n ELSE 100)
             /\ streak.n = MaxStreak => brightness = 100)
    /\ (streak.op = "dec" /\ streak.from = 100 /\ streak.before = "inc")
         => (/\ brightness = (IF 100 - 10 * streak.n >= 0
                              THEN 100 - 10 * streak.n ELSE 0)
             /\ streak.n = MaxStreak => brightness = 0)

\* C15 witness: MaxStreak decreases in a row, made by direct calls of the
\* driver after increases that had reached 100, have ended at 0
C15_Witness ==
    /\ last = "driver"
    /\ streak = [op |-> "dec", n |-> MaxStreak, from |-> 100, before |-> "inc"]
    /\ brightness = 0
    /\ returned = <<0>>

\* C16: turning on leaves the light on and turning off leaves it off,
\* whatever the state before and however often the operation is repeated;
\* the driver returns 0 and the dispatcher writes the confirmation, never an
\* error.
C16_OnOff ==
    /\ streak.op = "on" => on_state
    /\ streak.op = "off" => ~on_state
    /\ (last = "driver" /\ streak.op \in {"on", "off"}) => returned = <<0>>
    /\ (last = "dispatch" /\ streak.op = "on")
         => (uart_out = <<"Lights turned ON.\r\n">> /\ ~Has(log_out, LightsCommandError))
    /\ (last = "dispatch" /\ streak.op = "off")
         => (uart_out = <<"Lights turned OFF.\r\n">> /\ ~Has(log_out, LightsCommandError))

\* C16 witness: ON, OFF, OFF through the dispatcher has left the light off
C16_Witness ==
    /\ last = "dispatch"
    /\ dispatched = << <<1, 1>> >>
    /\ streak.op = "off"
    /\ streak.n = 2
    /\ streak.before = "on"
    /\ ~on_state

\* C17: turning on and turning off leave the brightness as it was, and
\* increasing and decreasing the brightness leave the on flag as it was.
C17_OnAndBrightnessIndependent ==
    [][(last' \in {"dispatch", "driver"})
       => (/\ streak'.op \in {"on", "off"} => brightness' = brightness
           /\ streak'.op \in {"inc", "dec"} => on_state' = on_state)]_vars

\* C17 witness: the light has been turned off at brightness 100
C17_Witness ==
    /\ last = "driver"
    /\ streak.op = "off"
    /\ streak.before = "inc"
    /\ brightness = 100
    /\ ~on_state

\* C18: dispatch(LIGHTS, a) for an action_id a outside 0 .. 3 leaves on and
\* brightness unchanged and writes "Invalid lights command.".
C18_InvalidLightsAction ==
    [][\A a \in ActionIds \ (0..3) :
          (last' = "dispatch" /\ dispatched' = << <<1, a>> >>)
          => (/\ on_state' = on_state
              /\ brightness' = brightness
              /\ uart_out' = <<"Invalid lights command.\r\n">>)]_vars

\* C18 witness: action_id 99 has been dispatched to the lights with the
\* light on and the brightness changed
C18_Witness ==
    /\ last = "dispatch"
    /\ dispatched = << <<1, 99>> >>
    /\ on_state
    /\ brightness = 100
    /\ uart_out = <<"Invalid lights command.\r\n">>

\* C19: commands_core_execute with a category outside 1 .. 4 writes
\* "Invalid command category." and changes neither the Light State, nor the
\* menu state, nor the receiver's cursor and buffer, nor the queue.
C19_UnknownCategory ==
    [][\A c \in Categories \ (1..4), a \in ActionIds :
          (last' = "dispatch" /\ dispatched' = << <<c, a>> >>)
          => (/\ uart_out' = <<"Invalid command category.\r\n">>
              /\ UNCHANGED <<lightvars, menuvars, rxvars, uart_msgq>>)]_vars

\* C19 witness: category 99 has been dispatched with the light on, the
\* brightness changed, a line in the queue and bytes in the receiver's buffer
C19_Witness ==
    /\ last = "dispatch"
    /\ dispatched = << <<99, 0>> >>
    /\ on_state
    /\ brightness # InitialBrightness
    /\ uart_msgq # <<>>
    /\ rx_buf_pos > 0
    /\ pc = "main_get"

\* C20: commands_core_execute returns 0 for every category and action_id it
\* is called with.
C20_DispatchReturnsZero == last = "dispatch" => returned = <<0>>

\* What the handler of category c writes
NotImplementedText(c) ==
    CASE c = 2 -> "Sensor commands not implemented yet.\r\n"
      [] c = 3 -> "System configuration commands not implemented yet.\r\n"
      [] c = 4 -> "Diagnostics commands not implemented yet.\r\n"

C22_WriteString ==
    [][\A str \in StrPtrs :
          WriteCall(str)
          => IF str.null
             THEN returned' = <<-EINVAL>> /\ uart_out' = <<>>
             ELSE /\ returned' = <<0>>
                  /\ Len(uart_out') = 1
                  /\ LET sent == uart_out'[1]
                     IN  /\ Len(sent) < Len(str.bytes)
                         /\ str.bytes[Len(sent) + 1] = NUL
                         /\ \A i \in 1..Len(sent) :
                                sent[i] = str.bytes[i] /\ sent[i] # NUL]_vars

\* C22 witness: uart_handler_write_string(NULL) has returned -EINVAL after
\* the start-up, with nothing written
C22_Witness ==
    /\ last = "write"
    /\ returned = <<-EINVAL>>
    /\ uart_out = <<>>
    /\ rx_irq_enabled

\* C23: uart_handler_init returns -ENODEV when the device is not ready and
\* the registration error when the callback cannot be registered, in both
\* cases without enabling RX; main then writes no welcome, never starts the
\* menu and nothing is tried again.  When it succeeds it returns 0 with RX
\* enabled, and main writes the welcome and starts the menu.
C23_StartupFailure ==
    /\ [][\A dev_ready \in BOOLEAN, cb_ret \in {0, -1} :
             Boot(dev_ready, cb_ret)
             => IF dev_ready /\ cb_ret = 0
                THEN /\ returned' = <<0>>
                     /\ rx_irq_enabled'
                     /\ pc' = "main_get"
                     /\ uart_out'[1] = "Welcome! Starting the menu...\r\n"
                ELSE /\ returned' = <<IF dev_ready THEN cb_ret ELSE -ENODEV>>
                     /\ ~rx_irq_enabled'
                     /\ pc' = "init_failed"
                     /\ uart_out' = <<>>
                     /\ log_out'[1] = <<"ERR", "uart_handler">>]_vars
    /\ [][pc = "init_failed"
          => (/\ pc' = "init_failed"
              /\ ~rx_irq_enabled'
              /\ last' \notin {"boot", "main", "lights", "irq"})]_vars

\* C23 witness: the start-up has failed, and a later step has found the
\* program still stopped with RX disabled and nothing received
C23_Witness ==
    /\ pc = "init_failed"
    /\ ~rx_irq_enabled
    /\ uart_msgq = <<>>
    /\ last = "write"

\* The receiver's warning
QueueFullWarning == <<"WRN", "uart_handler">>

\* C24: a terminator that arrives with a non-empty accumulation while the
\* queue is full drops the accumulated line: the buffer is emptied and the
\* cursor reset to 0, so that nothing of the line can be enqueued later, one
\* warning is raised and the queued lines are as they were.
C24_DropOnFullQueue ==
    [][\A chunk \in UartChunks :
          (/\ Irq(chunk)
           /\ Len(chunk) = 1
           /\ IsTerminator(chunk[1])
           /\ rx_buf_pos > 0
           /\ Len(uart_msgq) = UART_MSGQ_LEN)
          => (/\ uart_msgq' = uart_msgq
              /\ rx_buf_pos' = 0
              /\ rx_buf' = <<>>
              /\ log_out' = <<QueueFullWarning>>)]_vars

\* C24 witness: the receiver has just dropped a line at the full queue and
\* its cursor is 0
C24_Witness ==
    /\ last = "irq"
    /\ log_out = <<QueueFullWarning>>
    /\ Len(uart_msgq) = UART_MSGQ_LEN
    /\ rx_buf_pos = 0
    /\ rx_buf = <<>>

\* The first n elements of seq, or all of seq when it has fewer
Take(seq, n) == SubSeq(seq, 1, IF Len(seq) < n THEN Len(seq) ELSE n)

\* C25: the cursor is between 0 and UART_MSG_SIZE-1 in every state and
\* counts the bytes accumulated, so that the terminating NUL has its place
\* in the buffer, and no queued line is longer than UART_MSG_SIZE-1; bytes
\* other than terminators are appended while the cursor is below
\* UART_MSG_SIZE-1 and dropped from then on, leaving cursor and buffer as
\* they are.
C25_CursorBounded ==
    /\ [](/\ rx_buf_pos \in 0..(UART_MSG_SIZE - 1)
          /\ Len(rx_buf) = rx_buf_pos
          /\ \A i \in 1..Len(uart_msgq) : Len(uart_msgq[i]) <= UART_MSG_SIZE - 1)
    /\ [][Irq(Filler)
          => (/\ rx_buf' = Take(rx_buf \o Filler, UART_MSG_SIZE - 1)
              /\ rx_buf_pos' = Len(rx_buf')
              /\ uart_msgq' = uart_msgq
              /\ rx_buf_pos = UART_MSG_SIZE - 1
                   => (rx_buf' = rx_buf /\ rx_buf_pos' = rx_buf_pos))]_vars

\* C25 witness: a line that was cut to UART_MSG_SIZE-1 bytes has been
\* enqueued at its terminator (the pieces of a long line do not add up to
\* UART_MSG_SIZE-1 bytes, so that a piece was cut), and the buffer is full
\* again
C25_Witness ==
    /\ (UART_MSG_SIZE - 1) % FillLen # 0
    /\ \E i \in 1..Len(uart_msgq) :
          /\ Len(uart_msgq[i]) = UART_MSG_SIZE - 1
          /\ uart_msgq[i][1] = Filler[1]
    /\ rx_buf_pos = UART_MSG_SIZE - 1

\* C26: once the RX interrupt is enabled, a call of the receiver can take
\* place in every state and for every input, whether the queue is empty,
\* partly filled or full and whether the menu waits for a line or has
\* returned; the menu's step is the only one that waits, and it waits
\* exactly while the queue is empty.
C26_ProducerNeverBlocks ==
    /\ rx_irq_enabled => \A chunk \in UartChunks : ENABLED IrqStep(chunk)
    /\ pc = "main_get" => (ENABLED menu_core_run <=> uart_msgq # <<>>)

\* C26 witness: the receiver has run on a full queue after menu_core_run had
\* returned
C26_Witness ==
    /\ last = "irq"
    /\ pc = "done"
    /\ Len(uart_msgq) = UART_MSGQ_LEN
    /\ log_out = <<QueueFullWarning>>
    /\ rx_buf_pos > 0

\* C27: the lines the queue has accepted are, in order and each once, the
\* lines the menu has got followed by the lines still queued: no accepted
\* line is lost or handed out twice.  Each step of the menu takes exactly
\* one line, the oldest, and it is the step of the menu that was waiting:
\* the main menu in MAIN, the lights sub-menu in LIGHTS_SUB.
C27_HandedOverOnce ==
    /\ [](put_log = got_log \o uart_msgq)
    /\ [][got_log' # got_log
          => (/\ uart_msgq # <<>>
              /\ got_log' = Append(got_log, Head(uart_msgq))
              /\ uart_msgq' = Tail(uart_msgq)
              /\ \/ pc = "main_get" /\ last' = "main"
                 \/ pc = "lights_get" /\ last' = "lights")]_vars

\* C27 witness: of MaxLog accepted lines the menu has got some, the last of
\* them in the lights sub-menu, and the others are still queued
C27_Witness ==
    /\ Len(put_log) = MaxLog
    /\ Len(got_log) >= 2
    /\ uart_msgq # <<>>
    /\ last = "lights"
    /\ got_log[1] = Str1

\* What menu_display_error writes when the input cannot be read
ReadError == <<"Error: ", "Failed to read input.", "\r\n">>

\* The end of what menu_core_display_lights_menu writes
LightsMenuShown ==
    /\ Len(uart_out) >= 2
    /\ uart_out[Len(uart_out) - 1] = "Enter your choice:"
    /\ Has(uart_out, "Lights Control Menu:")

\* C28: when k_msgq_get returns a non-zero result in MAIN or in LIGHTS_SUB,
\* the menu displays the error "Failed to read input.", dispatches nothing,
\* leaves the Light State and the queue unchanged, stays in its state and
\* displays the menu of that state again before its next k_msgq_get.
C28_DequeueFailure ==
    [][(last' \in {"main_failed", "lights_failed"})
       => (/\ pc' = pc
           /\ last' = (IF pc = "main_get" THEN "main_failed" ELSE "lights_failed")
           /\ dispatched' = <<>>
           /\ on_state' = on_state
           /\ brightness' = brightness
           /\ uart_msgq' = uart_msgq
           /\ IsPrefix(ReadError, uart_out')
           /\ pc = "main_get" => MainMenuShown'
           /\ pc = "lights_get" => LightsMenuShown')]_vars

\* C28 witness: a read has failed in LIGHTS_SUB with the light on and a line
\* waiting in the queue
C28_Witness ==
    /\ last = "lights_failed"
    /\ pc = "lights_get"
    /\ on_state
    /\ uart_msgq # <<>>
    /\ IsPrefix(ReadError, uart_out)

IsSuffix(a, b) ==
    Len(a) <= Len(b) /\ SubSeq(b, Len(b) - Len(a) + 1, Len(b)) = a

\* The text of the main menu
MainMenuText ==
    << "\r\n--------------------------------------\r\n      UART Command Center Menu\r\n--------------------------------------\r\n",
       "[1] Control Lights\r\n",
       "[2] View Sensor Readings\r\n",
       "[3] System Configuration\r\n",
       "[4] Diagnostics and Logs\r\n",
       "[0] Exit\r\n",
       "Enter your choice: " >>

\* The text of the lights sub-menu
LightsMenuText ==
    << "Lights Control Menu:", "\r\n",
       "[1] Turn ON", "\r\n",
       "[2] Turn OFF", "\r\n",
       "[3] Increase Brightness", "\r\n",
       "[4] Decrease Brightness", "\r\n",
       "[0] Return to Main Menu", "\r\n",
       "Enter your choice:", "\r\n" >>

\* The steps of the main thread
ThreadSteps == {"boot", "main", "lights", "main_failed", "lights_failed"}

\* C29: whenever the main thread has come to a k_msgq_get, the last thing it
\* wrote is the text of the menu of the state it is in: the main menu in
\* MAIN, the lights menu in LIGHTS_SUB; so after the start, after a choice,
\* after an invalid input, after a failed read and after the return from
\* LIGHTS_SUB to MAIN.
C29_MenuShownBeforeDequeue ==
    /\ (last \in ThreadSteps /\ pc = "main_get") => IsSuffix(MainMenuText, uart_out)
    /\ (last \in ThreadSteps /\ pc = "lights_get") => IsSuffix(LightsMenuText, uart_out)

\* C29 witness: the lights sub-menu has been left with "0" and the main menu
\* has been displayed again
C29_Witness ==
    /\ last = "lights"
    /\ input_buffer = Str0
    /\ pc = "main_get"
    /\ IsSuffix(MainMenuText, uart_out)
    /\ Len(uart_out) > Len(MainMenuText)

\* The number of events of a level in a log
CountLevel(log, level) == Cardinality({i \in 1..Len(log) : log[i][1] = level})

\* The last step was a direct dispatch that took an error path: an unknown
\* category, or an invalid action_id for the lights
DispatchErrorPath ==
    /\ last = "dispatch"
    /\ \E c \in Categories, a \in ActionIds :
          /\ dispatched = << <<c, a>> >>
          /\ c \notin 1..4 \/ (c = 1 /\ a \notin 0..3)

\* The receiver is called with a full queue for bytes that end a line
DropPath(chunk) ==
    /\ Irq(chunk)
    /\ Len(uart_msgq) = UART_MSGQ_LEN
    /\ ~IsTerminator(chunk[1])
    /\ IsTerminator(chunk[2])

\* C30 as claimed: each error path of the dispatcher and of the receiver
\* emits exactly one event during the operation.
C30_ExactlyOneEvent ==
    /\ [](DispatchErrorPath => Len(log_out) = 1)
    /\ [][\A chunk \in CmdChunks : DropPath(chunk) => Len(log_out') = 1]_vars

\* C30 as amended: each error path of the dispatcher and of the receiver
\* emits exactly one warning and no error event during the operation; the
\* dispatcher adds an information event for each function entered, one for
\* an unknown category and three for an invalid lights action.
C30_ExactlyOneWarning ==
    /\ [](DispatchErrorPath
          => (/\ CountLevel(log_out, "WRN") = 1
              /\ CountLevel(log_out, "ERR") = 0
              /\ log_out[Len(log_out)][1] = "WRN"
              /\ Len(log_out) = (IF dispatched[1][1] = 1 THEN 4 ELSE 2)))
    /\ [][\A chunk \in CmdChunks :
             DropPath(chunk) => log_out' = <<QueueFullWarning>>]_vars

\* C30 witness: an invalid lights action has been dispatched and has left
\* three information events and one warning
C30_Witness ==
    /\ DispatchErrorPath
    /\ dispatched = << <<1, -1>> >>
    /\ Len(log_out) = 4
    /\ log_out[4] = <<"WRN", "command_lights">>

\* C31: lights_control_get_state is read-only.  Called with storage for both
\* outputs it returns 0, leaves the on flag and the brightness as they were
\* and writes exactly them to the storage; called with a null state or level
\* pointer it returns -EINVAL, writes to no storage and leaves the on flag
\* and the brightness as they were.
C31_GetStateReadOnly ==
    [][last' = "query"
       => (/\ on_state' = on_state
           /\ brightness' = brightness
           /\ Len(out_args') = 4
           /\ LET state == out_args'[1]
                  level == out_args'[2]
              IN  IF state.null \/ level.null
                  THEN /\ returned' = <<-EINVAL>>
                       /\ out_args'[3] = state
                       /\ out_args'[4] = level
                  ELSE /\ returned' = <<0>>
                       /\ out_args'[3] = [null |-> FALSE, val |-> on_state]
                       /\ out_args'[4] = [null |-> FALSE, val |-> brightness])]_vars

\* C31 witness: the query has reported a light that is on at brightness 70
\* into storage that held other values
C31_Witness ==
    /\ last = "query"
    /\ returned = <<0>>
    /\ on_state /\ brightness = 70
    /\ out_args = << [null |-> FALSE, val |-> FALSE], [null |-> FALSE, val |-> -1],
                     [null |-> FALSE, val |-> TRUE], [null |-> FALSE, val |-> 70] >>

\* C32: a get with a waiting time on the empty queue returns -EAGAIN and
\* leaves the queue empty and the destination as it was; a put on the empty
\* queue returns 0 and the queue holds one line; the get that follows it
\* returns 0 with a string equal to the one put and leaves the queue empty
\* again.
C32_QueueRoundTrip ==
    /\ [][\A timeout \in Timeouts :
            (GetCall(timeout) /\ uart_msgq = <<>> /\ timeout # "K_NO_WAIT")
            => (/\ returned' = <<-EAGAIN>>
                /\ uart_msgq' = <<>>
                /\ out_args'[2] = out_args'[1])]_vars
    /\ [][(last' = "put" /\ uart_msgq = <<>>)
          => (returned' = <<0>> /\ Len(uart_msgq') = 1)]_vars
    /\ [][(last = "put" /\ returned = <<0>> /\ Len(uart_msgq) = 1 /\ last' = "get")
          => (/\ returned' = <<0>>
              /\ StrEq(out_args'[2].val, out_args[1].val)
              /\ uart_msgq' = <<>>)]_vars

\* C32 witness: "Hello, UART Queue!" has been got from the queue, which is
\* empty again
C32_Witness ==
    /\ last = "get"
    /\ returned = <<0>>
    /\ uart_msgq = <<>>
    /\ Len(out_args[2].val) = 19
    /\ out_args[2].val[1] = 72
    /\ out_args[2].val[19] = NUL

\* C33: every line the menu dequeues fits in its input buffer: no k_msgq_get
\* of the main loop or of the lights sub-menu loop copies more bytes than
\* the menu_input_max_len bytes of input_buffer, so none writes past its end.
C33_DequeueFitsBuffer == overrun = 0

\* C34: no line the receiver has enqueued contains a terminator byte, '\n' or
\* '\r', whatever bytes were received; so a sender that ends each token with
\* "\r\n" finds each of its tokens in the queue as it typed it.
C34_NoTerminatorInLine ==
    \A i \in 1..Len(uart_msgq) :
        \A j \in 1..Len(uart_msgq[i]) : ~IsTerminator(uart_msgq[i][j])

\* C35: the lights sub-menu can be entered any number of times.  The
\* file-level flag run is true whenever the main thread waits for a line, so
\* also after a return from LIGHTS_SUB, which clears it; every "1" at MAIN
\* enters LIGHTS_SUB with the lights menu displayed, and in LIGHTS_SUB every
\* line is processed: "1" turns the light on, and only "0" returns to MAIN.
C35_LightsReentry ==
    /\ [](pc \in {"main_get", "lights_get"} => run = TRUE)
    /\ [][(pc = "main_get" /\ last' = "main" /\ StrEq(input_buffer', Str1))
          => (pc' = "lights_get" /\ run' = TRUE /\ LightsMenuShown')]_vars
    /\ [][(pc = "lights_get" /\ last' = "lights")
          => (/\ StrEq(input_buffer', Str0) <=> pc' = "main_get"
              /\ ~StrEq(input_buffer', Str0) <=> pc' = "lights_get"
              /\ StrEq(input_buffer', Str1)
                   => (dispatched' = << <<1, 0>> >> /\ on_state'))]_vars

\* C35 witness: the lights sub-menu has been entered, left and entered again,
\* and has turned the light on after the second entry
C35_Witness ==
    /\ got_log = <<Str1, Str0, Str1, Str1>>
    /\ pc = "lights_get"
    /\ last = "lights"
    /\ on_state
    /\ run = TRUE

C37_EveryLineDequeued ==
    /\ \A n \in 1..MaxLog :
          (Len(put_log) >= n) ~> (Len(got_log) >= n \/ pc = "done")
    /\ []((uart_msgq # <<>> /\ pc = "main_get") => ENABLED menu_core_run_fifo)
    /\ []((uart_msgq # <<>> /\ pc = "lights_get") => ENABLED menu_core_run_lights_menu_fifo)

\* C37 witness: every line of MaxLog accepted ones has been handed to the
\* menu, the last of them in the lights sub-menu, and the menu waits again
C37_Witness ==
    /\ Len(put_log) = MaxLog
    /\ got_log = put_log
    /\ uart_msgq = <<>>
    /\ last = "lights"
    /\ pc = "lights_get"

\* What main writes after menu_core_run has returned
ShutdownMessage == "Menu exited. Shutting down.\r\n"

\* C38: once the menu is left, every step is a step of the receiver: no line
\* is dequeued, nothing is dispatched, and the Light State and the state of
\* the menu stay as they are.  The receiver can always run: each of its
\* calls here ends one line, which is appended to the queue while the queue
\* holds less than UART_MSGQ_LEN lines and dropped with a warning afterwards.
\* main writes its shutdown message in the step that leaves the menu with
\* "0", after the text of that choice, and in no other step.
C38_AfterTermination ==
    /\ [][pc = "done"
          => (/\ last' = "irq"
              /\ UNCHANGED <<pc, run, input_buffer, on_state, brightness>>
              /\ dispatched' = <<>>
              /\ uart_out' = <<>>
              /\ IF Len(uart_msgq) < UART_MSGQ_LEN
                 THEN /\ Len(uart_msgq') = Len(uart_msgq) + 1
                      /\ IsPrefix(uart_msgq, uart_msgq')
                      /\ log_out' = <<>>
                 ELSE /\ uart_msgq' = uart_msgq
                      /\ log_out' = <<QueueFullWarning>>)]_vars
    /\ [](pc = "done" => \A chunk \in FrameChunks : ENABLED IrqStep(chunk))
    /\ [](Has(uart_out, ShutdownMessage)
          => (/\ pc = "done"
              /\ last = "main"
              /\ StrEq(input_buffer, Str0)
              /\ uart_out = <<"Exiting menu.\r\n", ShutdownMessage>>))
    /\ [][(pc # "done" /\ pc' = "done") => Has(uart_out', ShutdownMessage)]_vars

\* C38 witness: the menu has been left with the light on, the queue has
\* filled up since, and the receiver has just dropped a line
C38_Witness ==
    /\ pc = "done"
    /\ on_state
    /\ last = "irq"
    /\ Len(uart_msgq) = UART_MSGQ_LEN
    /\ log_out = <<QueueFullWarning>>

====
